---- MODULE Spec2Model ----
(***************************************************************************)
(* hahm-mqtt: the control unit (hahmmqtt/control_unit.py) that wraps a     *)
(* hahomematic central unit, its scheduler class and the example host      *)
(* program.                                                                *)
(*                                                                         *)
(* Granularity.  The adapter runs on one asyncio event loop.  Every        *)
(* operation is one action: the backend calls an operation makes are       *)
(* recorded, in order, in op.calls, and the outcome of an awaited backend  *)
(* call (returns / raises) is an input of the action.                      *)
(*                                                                         *)
(* Python values.  None is NoneStr for strings and objects and NonePort    *)
(* for optional integers.  A dict is the sequence of its <<key, value>>    *)
(* items in insertion order.  A device or channel address is the sequence  *)
(* of its tokens, so that "':' in address" is a membership test.           *)
(***************************************************************************)
EXTENDS Integers, Sequences, FiniteSets

(***************************************************************************)
(* Bounds of the model                                                     *)
(***************************************************************************)
\* number of central-unit handles async_init_central may create in one run
MaxCentrals == 2
\* length of the address list of a delete-devices event
MaxAddrs == 2
\* longest list of entities handed to a new-entity query
MaxNewEntities == 2

(***************************************************************************)
(* Python / backend constants                                              *)
(***************************************************************************)
NoneStr == "None"
NonePort == -1
IP_ANY_V4 == "0.0.0.0"
PORT_ANY == 0
\* const.py: SYSVAR_SCAN_INTERVAL and MASTER_SCAN_INTERVAL, in seconds
SYSVAR_SCAN_INTERVAL == 30
MASTER_SCAN_INTERVAL == 300
\* example.py: seconds the host sleeps per loop iteration
SleepSeconds == 60

Range(s) == {s[i] : i \in DOMAIN s}

Count(s, x) == Cardinality({i \in DOMAIN s : s[i] = x})

RECURSIVE Flatten(_)
Flatten(ss) == IF ss = <<>> THEN <<>> ELSE Head(ss) \o Flatten(Tail(ss))

(***************************************************************************)
(* dict operations, as the control unit uses them                          *)
(***************************************************************************)
DictHas(d, k) == \E i \in DOMAIN d : d[i][1] = k

\* d.get(k)
DictGet(d, k) ==
    IF DictHas(d, k) THEN d[CHOOSE i \in DOMAIN d : d[i][1] = k][2] ELSE NoneStr

\* variant: the assignment keeps an entry that is already there
DictSetKeepFirst(d, k, v) ==
    IF DictHas(d, k) THEN d ELSE Append(d, <<k, v>>)

\* d[k] = v
DictSet(d, k, v) ==
    IF DictHas(d, k)
    THEN [i \in DOMAIN d |-> IF d[i][1] = k THEN <<k, v>> ELSE d[i]]
    ELSE Append(d, <<k, v>>)

\* variant: the deletion empties the dict
DictDelClear(d, k) == << >>

\* del d[k], for a key that is present
DictDel(d, k) == SelectSeq(d, LAMBDA p : p[1] # k)

\* d.values()
DictValues(d) == [i \in DOMAIN d |-> d[i][2]]

(***************************************************************************)
(* Inputs: configurations, entities, addresses                             *)
(***************************************************************************)
\* an entry id of twelve characters; example.py uses "1234567890"
EntryIds == {<<7, 7, 1, 2, 3, 4, 5, 6, 7, 8, 9, 0>>}

\* the configuration mappings handed to ControlConfig (spec.md, section 6):
\* callback_host / callback_port absent, "any" and set; interfaces with and
\* without a path
ConfigDatas ==
    { [instance_name |-> "xxx", host |-> "ccu.local", username |-> "Admin",
       password |-> "secret", tls |-> TRUE, verify_tls |-> FALSE,
       callback_host |-> c[1], callback_port |-> c[2], json_port |-> 2121,
       interface |-> c[3]] :
      c \in { <<NoneStr, NonePort,
                << <<"HmIP-RF", [port |-> 2010]>>, <<"BidCos-RF", [port |-> 2001]>> >> >>,
              <<IP_ANY_V4, 8088,
                << <<"VirtualDevices", [port |-> 9292, path |-> "/groups"]>> >> >>,
              <<"192.168.1.10", PORT_ANY,
                << <<"HmIP-RF", [port |-> 2010]>>, <<"BidCos-RF", [port |-> 2001]>> >> >> } }

\* ControlConfig.__init__
ControlConfig(entry_id, data, default_port) ==
    [entry_id |-> entry_id, data |-> data, default_callback_port |-> default_port]

ControlConfigs ==
    { ControlConfig(e, d, 56345) : e \in EntryIds, d \in ConfigDatas }

\* host-assigned entity ids and the backend entities they can be bound to
EntityIds == {"light.a", "switch.b"}
HmEntities == {"E1", "E2", "E3"}
HubEntityIds == {"sensor.sv"}
HmHubEntities == {"H1"}

\* entity.device.device_address
DeviceAddress(e) ==
    CASE e = "E1" -> <<"VCU0000001">>
      [] e = "E2" -> <<"VCU0000001">>
      [] OTHER    -> <<"VCU0000002">>

\* helpers.py: HmCallbackEntity = (CustomEntity, GenericEntity); every value of
\* the active-entity mapping is typed HmBaseEntity = Union of the same two
IsHmCallbackEntity(e) == e \in HmEntities

\* a device address and one of its channel addresses, as the backend reports
\* them; the device VCU0000002 of entity E3 is never deleted
Addresses ==
    { <<"VCU0000001">>, <<"VCU0000001", ":", "1">> }

RECURSIVE SeqsUpTo(_, _)
SeqsUpTo(S, n) ==
    IF n = 0 THEN {<<>>}
    ELSE LET shorter == SeqsUpTo(S, n - 1)
         IN  shorter \cup {Append(s, x) : s \in shorter, x \in S}

AddressLists == SeqsUpTo(Addresses, MaxAddrs)

InterfaceIds == {"xxx-HmIP-RF"}

\* the events of the backend (hahomematic.const HmEventType) and the two kinds
\* of interface event (HmInterfaceEventType)
HmEventTypesNoInterface == {"homematic.impulse", "homematic.keypress", "homematic.device"}
HmInterfaceEventTypes == {"proxy", "callback"}

\* the interfaces an interface event can be about
HaInterfaceIds == {"xxx-HmIP-RF", "xxx-BidCos-RF"}

\* f"proxy-{interface_id}", f"callback-{interface_id}"
NotificationIdentifier(prefix, interface_id) == <<prefix, "-", interface_id>>

(***************************************************************************)
(* State                                                                   *)
(***************************************************************************)
VARIABLES
    control_config,   \* the ControlConfig the unit was built from
    central,          \* ControlUnit._central: the handle and its three hooks
    scheduler,        \* ControlUnit._scheduler
    active_hm_entities,      \* ControlUnit._active_hm_entities
    active_hm_hub_entities,  \* ControlUnit._active_hm_hub_entities
    clock,            \* seconds of host time, modulo MASTER_SCAN_INTERVAL
    op,               \* the operation that ran last, with what it called
    lastAdded,        \* per entity id: the entity of the most recent add call
                      \* for the id that no remove call for the id followed
    notified          \* history of the interface events, kept by NotificationSpec:
                      \* requested: per notification identifier, what the last
                      \*   request for it asked ("present", "absent");
                      \* reported: per (type, interface), what the last event
                      \*   for it said ("available", "unavailable")

vars == <<control_config, central, scheduler, active_hm_entities,
          active_hm_hub_entities, clock, op, lastAdded, notified>>

\* no interface event was seen, no notification was requested
NoNotifications ==
    [requested |-> [n \in {NotificationIdentifier(t, i) :
                              t \in HmInterfaceEventTypes, i \in HaInterfaceIds} |-> "none"],
     reported |-> [e \in HmInterfaceEventTypes \X HaInterfaceIds |-> "none"]]

\* self._central is None
NoCentral ==
    [id |-> 0, callback_entity_event |-> NoneStr,
     callback_system_event |-> NoneStr, callback_ha_event |-> NoneStr]

\* a call of a backend function or method; await: the adapter awaits it
Call(fn, arg, awaited) == [fn |-> fn, arg |-> arg, await |-> awaited]

\* the record of an operation: its arguments, whether its awaited backend call
\* returned (ok), the backend calls and the calls of the adapter's own methods
\* it made, the error it ended in and the value it returned
Done(name, arg, ok, calls, internal, raised, result) ==
    [name |-> name, arg |-> arg, ok |-> ok, calls |-> calls,
     internal |-> internal, raised |-> raised, result |-> result]

\* how an awaited backend call ends
Outcome(ok) == IF ok THEN "none" ELSE "BackendError"

(***************************************************************************)
(* BaseControlUnit                                                         *)
(***************************************************************************)
\* entry_id[-10:]
Last10(s) == IF Len(s) <= 10 THEN s ELSE SubSeq(s, Len(s) - 9, Len(s))

\* interface.get(ATTR_PATH)
InterfacePath(interface) ==
    IF "path" \in DOMAIN interface THEN interface.path ELSE NoneStr

\* the set built by the loop of _async_create_central
InterfaceConfigs(cc) ==
    { [central_name |-> cc.data.instance_name,
       interface |-> cc.data.interface[i][1],
       port |-> cc.data.interface[i][2].port,
       path |-> InterfacePath(cc.data.interface[i][2])] :
      i \in DOMAIN cc.data.interface }

\* variant: the callback host is forwarded without the IP_ANY_V4 test
CentralConfigKwargsRawHost(cc) ==
    [name |-> cc.data.instance_name,
     storage_folder |-> "hahm-mqtt",
     host |-> cc.data.host,
     username |-> cc.data.username,
     password |-> cc.data.password,
     central_id |-> Last10(cc.entry_id),
     tls |-> cc.data.tls,
     verify_tls |-> cc.data.verify_tls,
     json_port |-> cc.data.json_port,
     callback_host |-> cc.data.callback_host,
     callback_port |->
         IF ~(cc.data.callback_port = PORT_ANY) THEN cc.data.callback_port ELSE NonePort,
     default_callback_port |-> cc.default_callback_port,
     interface_configs |-> InterfaceConfigs(cc)]

\* the keyword arguments _async_create_central gives to CentralConfig
CentralConfigKwargs(cc) ==
    [name |-> cc.data.instance_name,
     storage_folder |-> "hahm-mqtt",
     host |-> cc.data.host,
     username |-> cc.data.username,
     password |-> cc.data.password,
     central_id |-> Last10(cc.entry_id),
     tls |-> cc.data.tls,
     verify_tls |-> cc.data.verify_tls,
     json_port |-> cc.data.json_port,
     callback_host |->
         IF ~(cc.data.callback_host = IP_ANY_V4) THEN cc.data.callback_host ELSE NoneStr,
     callback_port |->
         IF ~(cc.data.callback_port = PORT_ANY) THEN cc.data.callback_port ELSE NonePort,
     default_callback_port |-> cc.default_callback_port,
     interface_configs |-> InterfaceConfigs(cc)]

\* _async_create_central: CentralConfig(...) and the awaited get_central()
CreateCentralCalls(cc) ==
    << Call("CentralConfig", CentralConfigKwargs(cc), FALSE),
       Call("get_central", "CentralConfig", TRUE) >>

\* variant: only two of the three hooks are set
RegisterCallbacksNoHaEvent(c) ==
    [c EXCEPT !.callback_entity_event = "_async_callback_entity_event",
              !.callback_system_event = "_async_callback_system_event"]

\* ControlUnit.async_init_central, after super(): the three assignments
RegisterCallbacks(c) ==
    [c EXCEPT !.callback_entity_event = "_async_callback_entity_event",
              !.callback_system_event = "_async_callback_system_event",
              !.callback_ha_event = "_async_callback_ha_event"]

\* a handle as get_central() returns it: no hook set yet
NewCentral(id) == [NoCentral EXCEPT !.id = id]

\* variant: a failed start is tried a second time
StartCallsRetry(c, ok) ==
    IF c.id # 0
    THEN IF ok THEN << Call("start", c.id, TRUE) >>
         ELSE << Call("start", c.id, TRUE), Call("start", c.id, TRUE) >>
    ELSE << >>

\* variant: start also loads the hub's programs
StartCallsWithPrograms(c, ok) ==
    IF c.id # 0
    THEN << Call("start", c.id, TRUE), Call("fetch_program_data", "hub", TRUE) >>
    ELSE << >>

\* variant: the start is not forwarded
StartCallsNone(c, ok) == << >>

\* BaseControlUnit.async_start_central: the backend calls it makes
StartCalls(c, ok) ==
    IF c.id # 0 THEN << Call("start", c.id, TRUE) >> ELSE << >>

\* variant: a failed start is reported as the adapter's own error
StartRaisedWrapped(c, ok) ==
    IF c.id # 0 THEN (IF ok THEN "none" ELSE "CentralNotInitialized") ELSE "none"

\* BaseControlUnit.async_start_central: how it ends
StartRaised(c, ok) == IF c.id # 0 THEN Outcome(ok) ELSE "none"

\* BaseControlUnit.async_stop_central
StopCalls(c) ==
    IF c.id # 0 THEN << Call("stop", c.id, TRUE) >> ELSE << >>

StopRaised(c, ok) == IF c.id # 0 THEN Outcome(ok) ELSE "none"

(***************************************************************************)
(* HmScheduler                                                             *)
(***************************************************************************)
\* variant: both async_track_time_interval registrations are made
TrackedIntervalsBoth(sched) ==
    IF sched = NoneStr THEN {} ELSE {"sysvar", "master"}

\* HmScheduler.__init__: the interval listeners it registers with the host
\* (both async_track_time_interval calls are comments)
TrackedIntervals(sched) == {}

\* variant: the property never raises
CentralPropertyNeverRaises(c) == "central"

\* BaseControlUnit.central (also self._control.central, evaluated for the debug
\* message of the scheduler)
CentralProperty(c) == IF c.id # 0 THEN "central" ELSE "CentralNotInitialized"

\* variant: the on-demand fetch does what the scheduled fetch does
AsyncFetchSysvarsAndPrograms(c, ok) ==
    IF CentralProperty(c) = "CentralNotInitialized"
    THEN [calls |-> << >>, raised |-> "CentralNotInitialized"]
    ELSE [calls |-> << Call("fetch_sysvar_data", "hub", TRUE),
                       Call("fetch_program_data", "hub", TRUE) >>,
          raised |-> Outcome(ok)]

\* HmScheduler.async_fetch_sysvars
AsyncFetchSysvars(c, ok) ==
    IF CentralProperty(c) = "CentralNotInitialized"
    THEN [calls |-> << >>, raised |-> "CentralNotInitialized"]
    ELSE [calls |-> << Call("fetch_sysvar_data", "hub", TRUE) >>,
          raised |-> Outcome(ok)]

\* HmScheduler._async_fetch_data
AsyncFetchData(c, ok) ==
    IF CentralProperty(c) = "CentralNotInitialized"
    THEN [calls |-> << >>, raised |-> "CentralNotInitialized"]
    ELSE IF ok
         THEN [calls |-> << Call("fetch_sysvar_data", "hub", TRUE),
                            Call("fetch_program_data", "hub", TRUE) >>,
               raised |-> "none"]
         ELSE [calls |-> << Call("fetch_sysvar_data", "hub", TRUE) >>,
               raised |-> "BackendError"]

\* HmScheduler._async_fetch_master_data
AsyncFetchMasterData(c, ok) ==
    IF CentralProperty(c) = "CentralNotInitialized"
    THEN [calls |-> << >>, raised |-> "CentralNotInitialized"]
    ELSE [calls |-> << Call("refresh_entity_data", "MASTER", TRUE) >>,
          raised |-> Outcome(ok)]

\* number of multiples of interval in (t0, t1]
DueCount(interval, t0, t1) == (t1 \div interval) - (t0 \div interval)

\* the calls the listeners of a scheduler make while host time goes t0 -> t1
ListenerCalls(sched, c, t0, t1) ==
    LET sysvar == IF "sysvar" \in TrackedIntervals(sched)
                  THEN Flatten([i \in 1..DueCount(SYSVAR_SCAN_INTERVAL, t0, t1) |->
                                   AsyncFetchData(c, TRUE).calls])
                  ELSE << >>
        master == IF "master" \in TrackedIntervals(sched)
                  THEN Flatten([i \in 1..DueCount(MASTER_SCAN_INTERVAL, t0, t1) |->
                                   AsyncFetchMasterData(c, TRUE).calls])
                  ELSE << >>
    IN  sysvar \o master

(***************************************************************************)
(* ControlUnit: lifecycle                                                  *)
(***************************************************************************)
Init ==
    /\ control_config \in ControlConfigs
    /\ central = NoCentral
    /\ scheduler = NoneStr
    /\ active_hm_entities = << >>
    /\ active_hm_hub_entities = << >>
    /\ clock = 0
    /\ op = Done("__init__", << >>, TRUE, << >>, << >>, "none", NoneStr)
    /\ lastAdded = [id \in EntityIds |-> NoneStr]
    /\ notified = NoNotifications

\* ControlConfig.async_get_control_unit / ControlUnit.async_init_central
AsyncInitCentral ==
    /\ central.id < MaxCentrals
    /\ \E ok \in BOOLEAN :
         /\ central' = IF ok THEN RegisterCallbacks(NewCentral(central.id + 1))
                       ELSE central
         /\ op' = Done("async_init_central", << >>, ok,
                       CreateCentralCalls(control_config), << >>, Outcome(ok), NoneStr)
    /\ UNCHANGED <<notified, control_config, scheduler, active_hm_entities,
                   active_hm_hub_entities, clock, lastAdded>>

\* BaseControlUnit.async_start_central
AsyncStartCentral ==
    /\ \E ok \in (IF central.id # 0 THEN BOOLEAN ELSE {TRUE}) :
         op' = Done("async_start_central", << >>, ok, StartCalls(central, ok), << >>,
                    StartRaised(central, ok), NoneStr)
    /\ UNCHANGED <<notified, control_config, central, scheduler, active_hm_entities,
                   active_hm_hub_entities, clock, lastAdded>>

\* ControlUnit.async_stop_central
AsyncStopCentral ==
    /\ \E ok \in (IF central.id # 0 THEN BOOLEAN ELSE {TRUE}) :
         op' = Done("async_stop_central", << >>, ok, StopCalls(central),
                    IF scheduler # NoneStr THEN << <<"de_init", scheduler>> >> ELSE << >>,
                    StopRaised(central, ok), NoneStr)
    /\ UNCHANGED <<notified, control_config, central, scheduler, active_hm_entities,
                   active_hm_hub_entities, clock, lastAdded>>

\* ControlUnit.async_fetch_all_system_variables
AsyncFetchAllSystemVariables ==
    /\ \E ok \in (IF scheduler # NoneStr /\ central.id # 0 THEN BOOLEAN ELSE {TRUE}) :
         op' = IF scheduler = NoneStr
               THEN Done("async_fetch_all_system_variables", << >>, ok, << >>, << >>,
                         "none", NoneStr)
               ELSE Done("async_fetch_all_system_variables", << >>, ok,
                         AsyncFetchSysvars(central, ok).calls,
                         << <<"async_fetch_sysvars", scheduler>> >>,
                         AsyncFetchSysvars(central, ok).raised, NoneStr)
    /\ UNCHANGED <<notified, control_config, central, scheduler, active_hm_entities,
                   active_hm_hub_entities, clock, lastAdded>>

\* example.py: await asyncio.sleep(60); the event loop runs the listeners due
Sleep ==
    /\ clock' = (clock + SleepSeconds) % MASTER_SCAN_INTERVAL
    /\ op' = Done("sleep", << >>, TRUE,
                  ListenerCalls(scheduler, central, clock, clock + SleepSeconds),
                  << >>, "none", NoneStr)
    /\ UNCHANGED <<notified, control_config, central, scheduler, active_hm_entities,
                   active_hm_hub_entities, lastAdded>>

(***************************************************************************)
(* ControlUnit: the two active-entity mappings                             *)
(***************************************************************************)
\* ControlUnit.async_get_hm_entity
AsyncGetHmEntity ==
    /\ \E entity_id \in EntityIds :
         op' = Done("async_get_hm_entity", <<entity_id>>, TRUE, << >>, << >>, "none",
                    DictGet(active_hm_entities, entity_id))
    /\ UNCHANGED <<notified, control_config, central, scheduler, active_hm_entities,
                   active_hm_hub_entities, clock, lastAdded>>

\* ControlUnit.async_add_hm_entity
AsyncAddHmEntity ==
    /\ \E entity_id \in EntityIds, hm_entity \in HmEntities :
         /\ active_hm_entities' = DictSet(active_hm_entities, entity_id, hm_entity)
         /\ lastAdded' = [lastAdded EXCEPT ![entity_id] = hm_entity]
         /\ op' = Done("async_add_hm_entity", <<entity_id, hm_entity>>, TRUE, << >>, << >>,
                       "none", NoneStr)
    /\ UNCHANGED <<notified, control_config, central, scheduler, active_hm_hub_entities, clock>>

\* ControlUnit.async_add_hm_hub_entity
AsyncAddHmHubEntity ==
    /\ \E entity_id \in HubEntityIds, hm_hub_entity \in HmHubEntities :
         /\ active_hm_hub_entities' =
                DictSet(active_hm_hub_entities, entity_id, hm_hub_entity)
         /\ op' = Done("async_add_hm_hub_entity", <<entity_id, hm_hub_entity>>,
                       TRUE, << >>, << >>, "none", NoneStr)
    /\ UNCHANGED <<notified, control_config, central, scheduler, active_hm_entities, clock,
                   lastAdded>>

\* ControlUnit.async_remove_hm_entity
AsyncRemoveHmEntity ==
    /\ \E entity_id \in EntityIds :
         /\ active_hm_entities' =
                IF DictHas(active_hm_entities, entity_id)
                THEN DictDel(active_hm_entities, entity_id)
                ELSE active_hm_entities
         /\ lastAdded' = [lastAdded EXCEPT ![entity_id] = NoneStr]
         /\ op' = Done("async_remove_hm_entity", <<entity_id>>, TRUE, << >>, << >>,
                       IF DictHas(active_hm_entities, entity_id) THEN "none"
                       ELSE "KeyError",
                       NoneStr)
    /\ UNCHANGED <<notified, control_config, central, scheduler, active_hm_hub_entities, clock>>

\* ControlUnit.async_remove_hm_hub_entity
AsyncRemoveHmHubEntity ==
    /\ \E entity_id \in HubEntityIds :
         /\ active_hm_hub_entities' =
                IF DictHas(active_hm_hub_entities, entity_id)
                THEN DictDel(active_hm_hub_entities, entity_id)
                ELSE active_hm_hub_entities
         /\ op' = Done("async_remove_hm_hub_entity", <<entity_id>>, TRUE, << >>, << >>,
                       IF DictHas(active_hm_hub_entities, entity_id) THEN "none"
                       ELSE "KeyError",
                       NoneStr)
    /\ UNCHANGED <<notified, control_config, central, scheduler, active_hm_entities, clock,
                   lastAdded>>

(***************************************************************************)
(* ControlUnit: the callbacks the backend invokes through the hooks        *)
(***************************************************************************)
\* ControlUnit._async_callback_entity_event: prints its arguments
AsyncCallbackEntityEvent ==
    /\ central.callback_entity_event = "_async_callback_entity_event"
    /\ \E interface_id \in InterfaceIds :
         op' = Done("_async_callback_entity_event", <<interface_id>>,
                    TRUE, << >>, << >>, "none", NoneStr)
    /\ UNCHANGED <<notified, control_config, central, scheduler, active_hm_entities,
                   active_hm_hub_entities, clock, lastAdded>>

\* ":" in address
IsChannelAddress(address) == ":" \in Range(address)

\* variant with the isinstance / address test left out
GetActiveEntitiesAll(entities, device_address) == DictValues(entities)

\* ControlUnit._get_active_entities_by_device_address
GetActiveEntitiesByDeviceAddress(entities, device_address) ==
    SelectSeq(DictValues(entities),
              LAMBDA entity : /\ IsHmCallbackEntity(entity)
                              /\ device_address = DeviceAddress(entity))

\* the remove_entity() calls of the delete-devices branch, one address
RemoveEntityCalls(entities, address) ==
    IF IsChannelAddress(address) THEN << >>
    ELSE LET found == GetActiveEntitiesByDeviceAddress(entities, address)
         IN  [i \in DOMAIN found |-> Call("remove_entity", found[i], FALSE)]

\* the system events of the backend (hahomematic.const HH_EVENT_*)
HH_EVENT_DEVICES_CREATED == "devicesCreated"
HH_EVENT_DELETE_DEVICES == "deleteDevices"
SystemEventsIgnored ==
    {"hubCreated", "newDevices", "error", "listDevices", "reAddedDevice",
     "replaceDevice", "updateDevice"}

\* variant: the entities of a deleted device leave the active mapping
EntitiesAfterDeleteDevicesDropped(entities, addresses) ==
    SelectSeq(entities, LAMBDA p : DeviceAddress(p[2]) \notin Range(addresses))

\* ControlUnit._async_callback_system_event, the HH_EVENT_DELETE_DEVICES
\* branch: self._active_hm_entities after it; the branch only reads the mapping
\* and calls the backend's remove_entity
EntitiesAfterDeleteDevices(entities, addresses) == entities

\* ControlUnit._async_callback_system_event, src = HH_EVENT_DELETE_DEVICES
SystemEventDeleteDevices ==
    /\ central.callback_system_event = "_async_callback_system_event"
    /\ \E interface_id \in InterfaceIds, addresses \in AddressLists :
         /\ op' = Done("_async_callback_system_event",
                       <<HH_EVENT_DELETE_DEVICES, interface_id, addresses>>, TRUE,
                       Flatten([i \in DOMAIN addresses |->
                                   RemoveEntityCalls(active_hm_entities, addresses[i])]),
                       << >>, "none", NoneStr)
         /\ active_hm_entities' = EntitiesAfterDeleteDevices(active_hm_entities, addresses)
    /\ UNCHANGED <<notified, control_config, central, scheduler,
                   active_hm_hub_entities, clock, lastAdded>>

HH_EVENT_HUB_CREATED == "hubCreated"

\* variant: the hub-created branch is live and builds the scheduler
SchedulerAfterSystemEventHubCreated(sched, src) ==
    IF src = HH_EVENT_HUB_CREATED /\ sched = NoneStr THEN "HmScheduler" ELSE sched

\* ControlUnit._async_callback_system_event: self._scheduler after the event;
\* the branch for HH_EVENT_HUB_CREATED is a comment, no branch assigns it
SchedulerAfterSystemEvent(sched, src) == sched

\* ControlUnit._async_callback_system_event, every other src: the new entities
\* of created devices are collected and dropped, the rest returns at once
SystemEventOther ==
    /\ central.callback_system_event = "_async_callback_system_event"
    /\ \E src \in SystemEventsIgnored \cup {HH_EVENT_DEVICES_CREATED} :
         /\ op' = Done("_async_callback_system_event", <<src>>, TRUE, << >>, << >>,
                       "none", NoneStr)
         /\ scheduler' = SchedulerAfterSystemEvent(scheduler, src)
    /\ UNCHANGED <<notified, control_config, central, active_hm_entities,
                   active_hm_hub_entities, clock, lastAdded>>

\* variant: the CALLBACK branch reuses the identifier of the PROXY branch
InterfaceEventRequestsProxyId(interface_event_type, interface_id, available) ==
    IF available
    THEN << <<"_async_dismiss_persistent_notification",
              NotificationIdentifier("proxy", interface_id)>> >>
    ELSE << <<"_async_create_persistent_notification",
              NotificationIdentifier("proxy", interface_id)>> >>

\* ControlUnit._async_callback_ha_event, the INTERFACE branch: the calls of
\* _async_dismiss_persistent_notification / _async_create_persistent_notification
\* (both have an empty body) made by the PROXY and then by the CALLBACK test
InterfaceEventRequests(interface_event_type, interface_id, available) ==
    (IF interface_event_type = "proxy"
     THEN IF available
          THEN << <<"_async_dismiss_persistent_notification",
                    NotificationIdentifier("proxy", interface_id)>> >>
          ELSE << <<"_async_create_persistent_notification",
                    NotificationIdentifier("proxy", interface_id)>> >>
     ELSE << >>)
    \o
    (IF interface_event_type = "callback"
     THEN IF available
          THEN << <<"_async_dismiss_persistent_notification",
                    NotificationIdentifier("callback", interface_id)>> >>
          ELSE << <<"_async_create_persistent_notification",
                    NotificationIdentifier("callback", interface_id)>> >>
     ELSE << >>)

\* ControlUnit._async_callback_ha_event, hm_event_type = HmEventType.INTERFACE
HaEventInterfaceStep(interface_id, interface_event_type, available) ==
    /\ central.callback_ha_event = "_async_callback_ha_event"
    /\ op' = Done("_async_callback_ha_event",
                  <<"homematic.interface", interface_id, interface_event_type, available>>,
                  TRUE, << >>,
                  InterfaceEventRequests(interface_event_type, interface_id, available),
                  "none", NoneStr)
    /\ UNCHANGED <<control_config, central, scheduler, active_hm_entities,
                   active_hm_hub_entities, clock, lastAdded>>

HaEventInterface ==
    /\ \E interface_id \in InterfaceIds, interface_event_type \in HmInterfaceEventTypes,
          available \in BOOLEAN :
         HaEventInterfaceStep(interface_id, interface_event_type, available)
    /\ UNCHANGED notified

\* what the last request for each identifier asked, after the requests of a call
RECURSIVE RequestedAfter(_, _)
RequestedAfter(requested, requests) ==
    IF requests = << >>
    THEN requested
    ELSE RequestedAfter(
             [requested EXCEPT ![Head(requests)[2]] =
                  IF Head(requests)[1] = "_async_create_persistent_notification"
                  THEN "present" ELSE "absent"],
             Tail(requests))

\* the same handler, with the history of events and requests kept
HaEventInterfaceTracked ==
    \E interface_id \in HaInterfaceIds, interface_event_type \in HmInterfaceEventTypes,
       available \in BOOLEAN :
        /\ HaEventInterfaceStep(interface_id, interface_event_type, available)
        /\ notified' =
             [requested |-> RequestedAfter(notified.requested, op'.internal),
              reported |-> [notified.reported EXCEPT
                               ![<<interface_event_type, interface_id>>] =
                                   IF available THEN "available" ELSE "unavailable"]]

\* ControlUnit._async_callback_ha_event, IMPULSE / KEYPRESS / DEVICE: the event
\* data is read, nothing is fired
HaEventOther ==
    /\ central.callback_ha_event = "_async_callback_ha_event"
    /\ \E hm_event_type \in HmEventTypesNoInterface :
         op' = Done("_async_callback_ha_event", <<hm_event_type>>, TRUE, << >>, << >>,
                    "none", NoneStr)
    /\ UNCHANGED <<notified, control_config, central, scheduler, active_hm_entities,
                   active_hm_hub_entities, clock, lastAdded>>

\* BaseControlUnit.central, read by the host: the handle (its id) or the error
CentralRead ==
    /\ op' = IF CentralProperty(central) = "central"
             THEN Done("central", << >>, TRUE, << >>, << >>, "none", central.id)
             ELSE Done("central", << >>, TRUE, << >>, << >>, "CentralNotInitialized",
                       NoneStr)
    /\ UNCHANGED <<notified, control_config, central, scheduler, active_hm_entities,
                   active_hm_hub_entities, clock, lastAdded>>

(***************************************************************************)
(* New-entity queries                                                      *)
(***************************************************************************)
\* const.py, class Platform: the values of the adapter's platforms
Platform ==
    {"air_quality", "alarm_control_panel", "binary_sensor", "button", "calendar",
     "camera", "climate", "cover", "device_tracker", "fan", "geo_location",
     "humidifier", "image_processing", "light", "lock", "mailbox", "media_player",
     "notify", "number", "remote", "scene", "select", "sensor", "siren", "stt",
     "switch", "tts", "vacuum", "update", "water_heater", "weather"}

\* hahomematic.const.AVAILABLE_HM_PLATFORMS, a tuple of HmPlatform members (a
\* member is written as its value): platforms the adapter has, and "text",
\* which it has not
AVAILABLE_HM_PLATFORMS == <<"light", "sensor", "switch", "text">>

\* hahomematic.const.AVAILABLE_HM_HUB_PLATFORMS
AVAILABLE_HM_HUB_PLATFORMS == <<"hub_sensor">>

\* const.py, _get_hmip_local_platforms
HMIP_LOCAL_PLATFORMS == SelectSeq(AVAILABLE_HM_PLATFORMS, LAMBDA p : p \in Platform)

\* HmEntityUsage.ENTITY_NO_CREATE
ENTITY_NO_CREATE == "entity_no_create"

\* the entities the backend can report as new: the entities the host can hold
\* as active (E1, E2) and
\*   B0, another object with the unique identifier of E1,
\*   B1, an entity that is not to be created,
\*   B2, an entity of the available platform the adapter does not have,
\*   B3, an entity of a backend platform that is not among the available ones
\*       (the adapter has a platform of that value)
BaseEntities == {"E1", "E2", "B0", "B1", "B2", "B3"}

\* entity.usage
Usage(e) == IF e = "B1" THEN ENTITY_NO_CREATE ELSE "entity"

\* entity.unique_identifier
UniqueIdentifier(e) == IF e = "B0" THEN <<"uid", "E1">> ELSE <<"uid", e>>

\* entity.platform, written as its value
EntityPlatform(e) ==
    CASE e = "E2" -> "switch"
      [] e = "B2" -> "text"
      [] e = "B3" -> "update"
      [] e \in HmHubEntities -> "hub_sensor"
      [] OTHER    -> "light"

\* [entity.unique_identifier for entity in mapping.values()]
ActiveUniqueIds(entities) ==
    [i \in DOMAIN entities |-> UniqueIdentifier(DictValues(entities)[i])]

\* for hm_platform in platforms: hm_entities[hm_platform] = []
RECURSIVE InitDict(_, _)
InitDict(d, platforms) ==
    IF platforms = << >>
    THEN d
    ELSE InitDict(DictSet(d, Head(platforms), << >>), Tail(platforms))

\* hm_entities[platform].append(entity); KeyError when the key is missing
AppendTo(acc, platform, entity) ==
    IF acc.raised # "none"
    THEN acc
    ELSE IF DictHas(acc.dict, platform)
         THEN [acc EXCEPT !.dict = DictSet(acc.dict, platform,
                                           Append(DictGet(acc.dict, platform), entity))]
         ELSE [acc EXCEPT !.raised = "KeyError"]

\* variant: the unique identifiers of the active entities are not looked at
RECURSIVE CollectNewHmEntitiesAll(_, _, _)
CollectNewHmEntitiesAll(acc, active_unique_ids, new_entities) ==
    IF new_entities = << >>
    THEN acc
    ELSE LET entity == Head(new_entities)
         IN  CollectNewHmEntitiesAll(
                 IF /\ Usage(entity) # ENTITY_NO_CREATE
                    /\ EntityPlatform(entity) \in Range(HMIP_LOCAL_PLATFORMS)
                 THEN AppendTo(acc, EntityPlatform(entity), entity)
                 ELSE acc,
                 active_unique_ids, Tail(new_entities))

\* ControlUnit.async_get_new_hm_entities, the loop over new_entities
RECURSIVE CollectNewHmEntities(_, _, _)
CollectNewHmEntities(acc, active_unique_ids, new_entities) ==
    IF new_entities = << >>
    THEN acc
    ELSE LET entity == Head(new_entities)
         IN  CollectNewHmEntities(
                 IF /\ Usage(entity) # ENTITY_NO_CREATE
                    /\ UniqueIdentifier(entity) \notin Range(active_unique_ids)
                    /\ EntityPlatform(entity) \in Range(HMIP_LOCAL_PLATFORMS)
                 THEN AppendTo(acc, EntityPlatform(entity), entity)
                 ELSE acc,
                 active_unique_ids, Tail(new_entities))

\* ControlUnit.async_get_new_hm_hub_entities, the loop over new_hub_entities
RECURSIVE CollectNewHmHubEntities(_, _, _)
CollectNewHmHubEntities(acc, active_unique_ids, new_hub_entities) ==
    IF new_hub_entities = << >>
    THEN acc
    ELSE LET hub_entity == Head(new_hub_entities)
         IN  CollectNewHmHubEntities(
                 IF UniqueIdentifier(hub_entity) \notin Range(active_unique_ids)
                 THEN AppendTo(acc, EntityPlatform(hub_entity), hub_entity)
                 ELSE acc,
                 active_unique_ids, Tail(new_hub_entities))

\* the record of a query: the mapping it returns, or the error it ends in
QueryDone(name, arg, acc) ==
    Done(name, arg, TRUE, << >>, << >>, acc.raised,
         IF acc.raised = "none" THEN acc.dict ELSE NoneStr)

\* ControlUnit.async_get_new_hm_entities
GetNewHmEntities(new_entities) ==
    /\ op' = QueryDone("async_get_new_hm_entities", <<new_entities>>,
                 CollectNewHmEntities(
                     [dict |-> InitDict(<< >>, AVAILABLE_HM_PLATFORMS), raised |-> "none"],
                     ActiveUniqueIds(active_hm_entities), new_entities))
    /\ UNCHANGED <<notified, control_config, central, scheduler, active_hm_entities,
                   active_hm_hub_entities, clock, lastAdded>>

\* the query with no entity or one entity the host can hold as active
AsyncGetNewHmEntities ==
    \E new_entities \in SeqsUpTo(BaseEntities \cap HmEntities, 1) :
        GetNewHmEntities(new_entities)

\* the query with every list of up to MaxNewEntities entities
AsyncGetNewHmEntitiesLists ==
    \E new_entities \in SeqsUpTo(BaseEntities, MaxNewEntities) :
        GetNewHmEntities(new_entities)

\* ControlUnit.async_get_new_hm_hub_entities
AsyncGetNewHmHubEntities ==
    /\ \E new_hub_entities \in SeqsUpTo(HmHubEntities, 1) :
         op' = QueryDone("async_get_new_hm_hub_entities", <<new_hub_entities>>,
                   CollectNewHmHubEntities(
                       [dict |-> InitDict(<< >>, AVAILABLE_HM_HUB_PLATFORMS), raised |-> "none"],
                       ActiveUniqueIds(active_hm_hub_entities), new_hub_entities))
    /\ UNCHANGED <<notified, control_config, central, scheduler, active_hm_entities,
                   active_hm_hub_entities, clock, lastAdded>>

\* self.central.hm_entities.values(): the entities the backend holds
CentralHmEntities == <<"E1", "E2", "B1">>

\* self.central.hub.program_entities / sysvar_entities, in the order they are read
CentralHubEntities == <<"H1">>

\* the platform the host asks for
QueriedPlatforms == {"light"}

\* the record of a by-platform query: the list it returns, or the error of the
\* central property
ListDone(name, arg, c, list) ==
    IF CentralProperty(c) = "central"
    THEN Done(name, arg, TRUE, << >>, << >>, "none", list)
    ELSE Done(name, arg, TRUE, << >>, << >>, "CentralNotInitialized", NoneStr)

\* ControlUnit.async_get_new_hm_entities_by_platform
AsyncGetNewHmEntitiesByPlatform ==
    /\ \E platform \in QueriedPlatforms :
         op' = ListDone("async_get_new_hm_entities_by_platform", <<platform>>, central,
                   SelectSeq(CentralHmEntities,
                       LAMBDA entity :
                           /\ Usage(entity) # ENTITY_NO_CREATE
                           /\ UniqueIdentifier(entity)
                                  \notin Range(ActiveUniqueIds(active_hm_entities))
                           /\ EntityPlatform(entity) = platform))
    /\ UNCHANGED <<notified, control_config, central, scheduler, active_hm_entities,
                   active_hm_hub_entities, clock, lastAdded>>

\* ControlUnit.async_get_hm_entities_by_platform
AsyncGetHmEntitiesByPlatform ==
    /\ \E platform \in QueriedPlatforms :
         op' = ListDone("async_get_hm_entities_by_platform", <<platform>>, central,
                   SelectSeq(CentralHmEntities,
                       LAMBDA entity :
                           /\ Usage(entity) # ENTITY_NO_CREATE
                           /\ EntityPlatform(entity) = platform))
    /\ UNCHANGED <<notified, control_config, central, scheduler, active_hm_entities,
                   active_hm_hub_entities, clock, lastAdded>>

\* ControlUnit.async_get_new_hm_hub_entities_by_platform; hub: central.hub is set
AsyncGetNewHmHubEntitiesByPlatform ==
    /\ \E hub \in (IF central.id # 0 THEN BOOLEAN ELSE {FALSE}) :
         op' = ListDone("async_get_new_hm_hub_entities_by_platform",
                   <<"hub_sensor", hub>>, central,
                   IF ~hub
                   THEN << >>
                   ELSE SelectSeq(CentralHubEntities,
                            LAMBDA hub_entity :
                                /\ UniqueIdentifier(hub_entity)
                                       \notin Range(ActiveUniqueIds(active_hm_hub_entities))
                                /\ EntityPlatform(hub_entity) = "hub_sensor"))
    /\ UNCHANGED <<notified, control_config, central, scheduler, active_hm_entities,
                   active_hm_hub_entities, clock, lastAdded>>

(***************************************************************************)
(* Specifications                                                          *)
(***************************************************************************)
\* the lifecycle operations, as example.py drives them
Lifecycle ==
    \/ AsyncInitCentral
    \/ AsyncStartCentral
    \/ AsyncStopCentral
    \/ AsyncFetchAllSystemVariables
    \/ Sleep

Next ==
    \/ AsyncInitCentral
    \/ AsyncStartCentral
    \/ AsyncStopCentral
    \/ AsyncFetchAllSystemVariables
    \/ Sleep
    \/ AsyncGetHmEntity
    \/ AsyncAddHmEntity
    \/ AsyncAddHmHubEntity
    \/ AsyncRemoveHmEntity
    \/ AsyncRemoveHmHubEntity
    \/ AsyncCallbackEntityEvent
    \/ SystemEventDeleteDevices
    \/ SystemEventOther
    \/ HaEventInterface
    \/ HaEventOther
    \/ AsyncGetNewHmEntities
    \/ AsyncGetNewHmHubEntities
    \/ CentralRead
    \/ AsyncGetNewHmEntitiesByPlatform
    \/ AsyncGetHmEntitiesByPlatform
    \/ AsyncGetNewHmHubEntitiesByPlatform

Spec == Init /\ [][Next]_vars

\* the event loop completes every sleep: host time keeps advancing
FairSpec == Init /\ [][Lifecycle]_vars /\ WF_vars(Sleep)

\* a unit as async_get_control_unit returns it, with or without an HmScheduler
\* built for the hub of its central unit stored in _scheduler
AttachedInit ==
    /\ control_config \in ControlConfigs
    /\ central = RegisterCallbacks(NewCentral(1))
    /\ scheduler \in {NoneStr, "HmScheduler"}
    /\ active_hm_entities = << >>
    /\ active_hm_hub_entities = << >>
    /\ clock = 0
    /\ op = Done("__init__", << >>, TRUE, << >>, << >>, "none", NoneStr)
    /\ lastAdded = [id \in EntityIds |-> NoneStr]
    /\ notified = NoNotifications

AttachedSpec == AttachedInit /\ [][Next]_vars

\* the unit and the events of its HA-event callback, with their history
NotificationNext ==
    \/ AsyncInitCentral
    \/ HaEventInterfaceTracked
    \/ HaEventOther

NotificationSpec == Init /\ [][NotificationNext]_vars

\* the active-entity mapping and the new-entity query with lists of entities
QueryNext ==
    \/ AsyncAddHmEntity
    \/ AsyncRemoveHmEntity
    \/ AsyncGetNewHmEntitiesLists

\* a unit as constructed; the configuration plays no part in the query, one
\* configuration is enough
QueryInit == Init /\ control_config.data.callback_host = NoneStr

QuerySpec == QueryInit /\ [][QueryNext]_vars

(***************************************************************************)
(* Properties                                                              *)
(***************************************************************************)
\* number of calls of backend function fn among calls
CountFn(calls, fn) == Cardinality({i \in DOMAIN calls : calls[i].fn = fn})

Awaited(calls) == {calls[i].fn : i \in {j \in DOMAIN calls : calls[j].await}}

StartedOk ==
    op.name = "async_start_central" /\ central.id # 0 /\ op.raised = "none"

Stopped == op.name = "async_stop_central"

ScheduledSysvarFetch == op.name = "sleep" /\ CountFn(op.calls, "fetch_sysvar_data") > 0

ScheduledMasterRefresh == op.name = "sleep" /\ CountFn(op.calls, "refresh_entity_data") > 0

\* C1: once the unit is initialised and started, the scheduler keeps polling:
\* unless the unit is stopped, a scheduled system-variable fetch follows, and a
\* scheduled master parameter-set refresh follows.
C1_PeriodicPolling ==
    /\ StartedOk ~> (ScheduledSysvarFetch \/ Stopped)
    /\ StartedOk ~> (ScheduledMasterRefresh \/ Stopped)

\* C2: with a handle, a call of async_start_central makes exactly one backend
\* call, start, and a call of async_stop_central exactly one, stop; without a
\* handle neither makes a backend call and neither raises.
C2_LifecycleForwarded ==
    [][ /\ (op'.name = "async_start_central" /\ central.id # 0) =>
              (Len(op'.calls) = 1 /\ CountFn(op'.calls, "start") = 1)
        /\ (op'.name = "async_stop_central" /\ central.id # 0) =>
              (Len(op'.calls) = 1 /\ CountFn(op'.calls, "stop") = 1)
        /\ (op'.name \in {"async_start_central", "async_stop_central"}
            /\ central.id = 0) =>
              (op'.calls = << >> /\ op'.raised = "none") ]_vars

C2_Witness ==
    /\ op.name = "async_stop_central"
    /\ central.id # 0
    /\ CountFn(op.calls, "stop") = 1

\* C3: whenever the unit holds a handle, the three hooks of the handle are the
\* unit's three handlers.
C3_CallbacksRegistered ==
    central.id # 0 =>
        /\ central.callback_entity_event = "_async_callback_entity_event"
        /\ central.callback_system_event = "_async_callback_system_event"
        /\ central.callback_ha_event = "_async_callback_ha_event"

C3_Witness ==
    /\ op.name = "async_start_central"
    /\ central.id # 0
    /\ central.callback_ha_event = "_async_callback_ha_event"

\* the keyword arguments the backend configuration constructor received
ReceivedKwargs == op.calls[1].arg

\* every interface entry of the mapping reaches the constructor with its
\* name, its port and its path (None when the entry has no path)
InterfacesForwarded(data, kwargs) ==
    /\ \A i \in DOMAIN data.interface :
         \E ic \in kwargs.interface_configs :
            /\ ic.interface = data.interface[i][1]
            /\ ic.port = data.interface[i][2].port
            /\ ic.path = IF "path" \in DOMAIN data.interface[i][2]
                         THEN data.interface[i][2].path ELSE NoneStr
    /\ Cardinality(kwargs.interface_configs) = Len(data.interface)

PlainFieldsForwarded(data, kwargs) ==
    /\ kwargs.host = data.host
    /\ kwargs.username = data.username
    /\ kwargs.password = data.password
    /\ kwargs.tls = data.tls
    /\ kwargs.verify_tls = data.verify_tls
    /\ kwargs.json_port = data.json_port

\* C4: the backend configuration constructor receives host, username, password,
\* tls, verify_tls, json_port, callback_host and callback_port with the values
\* they have in the configuration mapping, and every interface entry.
C4_ForwardedUnchanged ==
    op.name = "async_init_central" =>
        /\ PlainFieldsForwarded(control_config.data, ReceivedKwargs)
        /\ ReceivedKwargs.callback_host = control_config.data.callback_host
        /\ ReceivedKwargs.callback_port = control_config.data.callback_port
        /\ InterfacesForwarded(control_config.data, ReceivedKwargs)

\* C4, amended: as C4, except that a callback_host equal to IP_ANY_V4 and a
\* callback_port equal to PORT_ANY reach the constructor as None.
C4_ForwardedExceptAny ==
    op.name = "async_init_central" =>
        /\ PlainFieldsForwarded(control_config.data, ReceivedKwargs)
        /\ control_config.data.callback_host # IP_ANY_V4 =>
              ReceivedKwargs.callback_host = control_config.data.callback_host
        /\ control_config.data.callback_host = IP_ANY_V4 =>
              ReceivedKwargs.callback_host = NoneStr
        /\ control_config.data.callback_port # PORT_ANY =>
              ReceivedKwargs.callback_port = control_config.data.callback_port
        /\ control_config.data.callback_port = PORT_ANY =>
              ReceivedKwargs.callback_port = NonePort
        /\ InterfacesForwarded(control_config.data, ReceivedKwargs)

C4_Witness ==
    /\ op.name = "async_init_central"
    /\ control_config.data.callback_host = IP_ANY_V4
    /\ ReceivedKwargs.callback_host = NoneStr
    /\ ReceivedKwargs.callback_port = 8088
    /\ central.id # 0

\* a step of one of the three operations in which the awaited backend call
\* (start, stop, fetch_sysvar_data) was made and raised
BackendCallFailed ==
    /\ op'.name \in {"async_start_central", "async_stop_central",
                     "async_fetch_all_system_variables"}
    /\ Len(op'.calls) > 0
    /\ ~op'.ok

UnitStateUnchanged ==
    UNCHANGED <<central, scheduler, active_hm_entities, active_hm_hub_entities>>

\* C5: a failure of the backend's start, stop or fetch call is only logged or
\* swallowed by the operation that made the call (the operation returns), it
\* does not end in an adapter-specific error, and the unit's state (handle,
\* scheduler, both mappings) is as before the call.
C5_FailureLoggedOrSwallowed ==
    [][ BackendCallFailed => (op'.raised = "none" /\ UnitStateUnchanged) ]_vars

\* C5, amended: the failure leaves the operation as the backend raised it,
\* neither caught nor wrapped in an adapter-specific error, and the unit's
\* state is as before the call.
C5_FailurePropagatesUnwrapped ==
    [][ BackendCallFailed =>
            (op'.raised = "BackendError" /\ UnitStateUnchanged) ]_vars

C5_Witness ==
    /\ op.name = "async_start_central"
    /\ ~op.ok
    /\ CountFn(op.calls, "start") = 1
    /\ op.raised = "BackendError"
    /\ Len(active_hm_entities) > 0

\* C6: one call of async_start_central, async_stop_central or
\* async_fetch_all_system_variables invokes start, stop, fetch_sysvar_data
\* at most once, also when the backend call fails.
C6_NoRetry ==
    /\ op.name = "async_start_central" => CountFn(op.calls, "start") <= 1
    /\ op.name = "async_stop_central" => CountFn(op.calls, "stop") <= 1
    /\ op.name = "async_fetch_all_system_variables" =>
          CountFn(op.calls, "fetch_sysvar_data") <= 1

C6_Witness ==
    /\ op.name = "async_fetch_all_system_variables"
    /\ ~op.ok
    /\ CountFn(op.calls, "fetch_sysvar_data") = 1

C8_PlainMap ==
    /\ \A id \in EntityIds : DictGet(active_hm_entities, id) = lastAdded[id]
    /\ op.name = "async_get_hm_entity" => op.result = lastAdded[op.arg[1]]
    /\ op.name = "async_add_hm_entity" => op.raised = "none"

C8_Witness ==
    /\ op.name = "async_get_hm_entity"
    /\ op.arg[1] = "light.a"
    /\ op.result = "E2"
    /\ active_hm_entities = << <<"switch.b", "E1">>, <<"light.a", "E2">> >>

\* C9: async_fetch_all_system_variables makes no backend call when the unit has
\* no scheduler; with a scheduler it calls fetch_sysvar_data exactly once and
\* neither fetch_program_data nor the master parameter-set refresh.
C9_OnDemandFetch ==
    [][ op'.name = "async_fetch_all_system_variables" =>
          /\ scheduler = NoneStr => op'.calls = << >>
          /\ scheduler # NoneStr =>
                /\ CountFn(op'.calls, "fetch_sysvar_data") = 1
                /\ CountFn(op'.calls, "fetch_program_data") = 0
                /\ CountFn(op'.calls, "refresh_entity_data") = 0
                /\ Len(op'.calls) = 1 ]_vars

C9_Witness ==
    /\ op.name = "async_fetch_all_system_variables"
    /\ scheduler # NoneStr
    /\ CountFn(op.calls, "fetch_sysvar_data") = 1

\* the addresses of a delete-devices event
EventAddresses(o) == o.arg[3]

IsDeleteDevices(o) ==
    o.name = "_async_callback_system_event" /\ o.arg[1] = HH_EVENT_DELETE_DEVICES

IsInterfaceEvent(o) ==
    o.name = "_async_callback_ha_event" /\ o.arg[1] = "homematic.interface"

\* C11: an interface event of type PROXY (CALLBACK) on interface i makes exactly
\* one notification request, for the identifier 'proxy-i' ('callback-i'): its
\* dismissal when the event says available, its creation when it says
\* unavailable; no request is made for the identifier of another interface or
\* type.  After any sequence of interface events, for every (type, interface)
\* that had an event, the last request for its identifier asked for the
\* notification to be present exactly when the most recent event for that
\* (type, interface) said unavailable; a (type, interface) without an event has
\* had no request.
C11_InterfaceAvailability ==
    /\ IsInterfaceEvent(op) =>
        /\ Len(op.internal) = 1
        /\ op.internal[1][2] = <<op.arg[3], "-", op.arg[2]>>
        /\ op.arg[4] => op.internal[1][1] = "_async_dismiss_persistent_notification"
        /\ ~op.arg[4] => op.internal[1][1] = "_async_create_persistent_notification"
    /\ \A t \in HmInterfaceEventTypes, i \in HaInterfaceIds :
        /\ notified.reported[<<t, i>>] = "unavailable"
               <=> notified.requested[<<t, "-", i>>] = "present"
        /\ notified.reported[<<t, i>>] = "available"
               <=> notified.requested[<<t, "-", i>>] = "absent"
        /\ notified.reported[<<t, i>>] = "none"
               <=> notified.requested[<<t, "-", i>>] = "none"

C11_Witness ==
    /\ IsInterfaceEvent(op)
    /\ op.arg = <<"homematic.interface", "xxx-BidCos-RF", "callback", FALSE>>
    /\ notified.reported[<<"callback", "xxx-BidCos-RF">>] = "unavailable"
    /\ notified.requested[<<"callback", "-", "xxx-BidCos-RF">>] = "present"
    /\ notified.reported[<<"proxy", "xxx-BidCos-RF">>] = "available"
    /\ notified.requested[<<"proxy", "-", "xxx-BidCos-RF">>] = "absent"
    /\ notified.reported[<<"callback", "xxx-HmIP-RF">>] = "none"

IsNewEntitiesQuery(o) == o.name = "async_get_new_hm_entities"

\* C12: async_get_new_hm_entities ends without an error; its result has one
\* list for every available backend platform, in their order; an entity of the
\* input list is in the list of a platform exactly when that platform is its
\* own, its usage is not ENTITY_NO_CREATE, no active entity has its unique
\* identifier and its platform is an available platform the adapter has; the
\* lists hold nothing but input entities; the call leaves both active-entity
\* mappings as they were.
C12_NewEntities ==
    [][IsNewEntitiesQuery(op') =>
          /\ op'.raised = "none"
          /\ [i \in DOMAIN op'.result |-> op'.result[i][1]] = AVAILABLE_HM_PLATFORMS
          /\ \A i \in DOMAIN op'.result :
                /\ Range(op'.result[i][2]) \subseteq Range(op'.arg[1])
                /\ \A e \in Range(op'.arg[1]) :
                      e \in Range(op'.result[i][2])
                      <=> /\ op'.result[i][1] = EntityPlatform(e)
                          /\ Usage(e) # ENTITY_NO_CREATE
                          /\ \A j \in DOMAIN active_hm_entities :
                                UniqueIdentifier(active_hm_entities[j][2])
                                    # UniqueIdentifier(e)
                          /\ EntityPlatform(e) \in Range(AVAILABLE_HM_PLATFORMS)
                          /\ EntityPlatform(e) \in Platform
          /\ active_hm_entities' = active_hm_entities
          /\ active_hm_hub_entities' = active_hm_hub_entities]_vars

C12_Witness ==
    /\ IsNewEntitiesQuery(op)
    /\ op.arg = << <<"E2", "B0">> >>
    /\ "E1" \in Range(DictValues(active_hm_entities))
    /\ op.result = << <<"light", << >> >>, <<"sensor", << >> >>,
                      <<"switch", <<"E2">> >>, <<"text", << >> >> >>

\* C13: the central property raises while no handle is set and returns the
\* handle once one is set; the handle is unset at construction and is set or
\* replaced only by an async_init_central that ends without an error, which
\* leaves a handle set; every other operation and callback (start, stop, fetch,
\* the events, the queries) leaves the handle as it is, and an
\* async_start_central with a handle set, whatever ran before it, makes one
\* backend start call.
C13_CentralProperty ==
    [][/\ op'.name = "central" =>
             IF central.id = 0
             THEN op'.raised = "CentralNotInitialized"
             ELSE op'.raised = "none" /\ op'.result = central.id
       /\ central' # central =>
             /\ op'.name = "async_init_central"
             /\ op'.raised = "none"
       /\ (op'.name = "async_init_central" /\ op'.raised = "none") => central'.id # 0
       /\ (central.id # 0 /\ op'.name # "async_init_central") => central' = central
       /\ (op.name = "__init__" /\ op'.name # "async_init_central") => central'.id = 0
       /\ (op'.name = "async_start_central" /\ central.id # 0) =>
             CountFn(op'.calls, "start") = 1]_vars

C13_Witness ==
    /\ op.name = "central"
    /\ op.raised = "none"
    /\ central.id = MaxCentrals
    /\ op.result = central.id

EntityMappingOps == {"async_add_hm_entity", "async_remove_hm_entity"}
HubMappingOps == {"async_add_hm_hub_entity", "async_remove_hm_hub_entity"}

\* C15: a step that is not one of the four add/remove operations (init, start,
\* stop, fetch, the passing of time, the entity-event, system-event and HA-event
\* callbacks, the reads and the queries) leaves both active-entity mappings
\* unchanged; an add or remove on the entity mapping leaves the hub-entity
\* mapping unchanged, and an add or remove on the hub-entity mapping leaves the
\* entity mapping unchanged.
C15_MappingFrame ==
    [][/\ op'.name \notin EntityMappingOps => active_hm_entities' = active_hm_entities
       /\ op'.name \notin HubMappingOps =>
              active_hm_hub_entities' = active_hm_hub_entities]_vars

C15_Witness ==
    /\ op.name = "_async_callback_system_event"
    /\ op.arg[1] = HH_EVENT_DELETE_DEVICES
    /\ Len(op.calls) > 0
    /\ Len(active_hm_entities) = 2
    /\ Len(active_hm_hub_entities) = 1

\* what a del of key id made of mapping m (m2 after it), with error raised
RemovedExactly(m, m2, id, raised) ==
    IF \A i \in DOMAIN m : m[i][1] # id
    THEN raised = "KeyError" /\ m2 = m
    ELSE /\ raised = "none"
         /\ \A i \in DOMAIN m2 : m2[i][1] # id
         /\ Len(m2) = Len(m) - 1
         /\ \A i \in DOMAIN m : m[i][1] # id => m[i] \in Range(m2)

\* C16: async_remove_hm_entity (async_remove_hm_hub_entity) with an id that is
\* not a key of its mapping ends in a KeyError and leaves both mappings
\* unchanged; with an id that is a key it ends without an error, the key is
\* gone, every other entry is still there with its value, and the other mapping
\* is unchanged; a remove that directly follows a successful remove of the same
\* id ends in a KeyError.
C16_RemoveAbsentFails ==
    [][/\ op'.name = "async_remove_hm_entity" =>
             /\ RemovedExactly(active_hm_entities, active_hm_entities',
                               op'.arg[1], op'.raised)
             /\ active_hm_hub_entities' = active_hm_hub_entities
       /\ op'.name = "async_remove_hm_hub_entity" =>
             /\ RemovedExactly(active_hm_hub_entities, active_hm_hub_entities',
                               op'.arg[1], op'.raised)
             /\ active_hm_entities' = active_hm_entities
       /\ ( /\ op.name \in {"async_remove_hm_entity", "async_remove_hm_hub_entity"}
            /\ op.raised = "none"
            /\ op'.name = op.name
            /\ op'.arg = op.arg ) => op'.raised = "KeyError"]_vars

C16_Witness ==
    /\ op.name = "async_remove_hm_entity"
    /\ op.raised = "KeyError"
    /\ Len(active_hm_entities) = 1
    /\ Len(active_hm_hub_entities) = 1

====
